---- MODULE Spec2Model ----
(***************************************************************************)
(* Android System Explorer: the adb client (src/src/adb.ts) and the tree   *)
(* provider and commands of the extension (src/src/extension.ts).          *)
(*                                                                         *)
(* Program strings are TLA+ strings, i.e. sequences of characters.  They   *)
(* are taken apart with Len, SubSeq and \o only, so every string operation *)
(* of the code (trim, split, includes, the regular expression, parseInt,   *)
(* path.posix.join, replace) is computed character by character.           *)
(*                                                                         *)
(* A value the code computes once and uses several times is passed as a    *)
(* parameter to the operator that models the rest of the code.             *)
(***************************************************************************)
EXTENDS Integers, Sequences, FiniteSets, TLC

(***************************************************************************)
(* JavaScript string primitives                                            *)
(***************************************************************************)

\* the characters of s, each a one-character string
CharsOf(s) == { SubSeq(s, i, i) : i \in 1..Len(s) }

\* the characters \s matches (and trim() strips)
SpaceChars == CharsOf(" \t\n\r\f")

\* the characters \d matches
DigitChars == CharsOf("0123456789")

\* the characters \w matches
WordChars ==
    CharsOf("abcdefghijklmnopqrstuvwxyzABCDEFGHIJKLMNOPQRSTUVWXYZ0123456789_")

\* the characters [d\-\w] matches
PermissionChars == WordChars \cup {"-"}

\* the characters the dot of a regular expression does not match
LineTerminators == CharsOf("\n\r")

\* s.startsWith(p)
StartsWith(s, p) == Len(p) <= Len(s) /\ SubSeq(s, 1, Len(p)) = p

\* s.endsWith(p)
EndsWith(s, p) ==
    Len(p) <= Len(s) /\ SubSeq(s, Len(s) - Len(p) + 1, Len(s)) = p

\* the first index from i on at which n occurs in s, 0 when there is none
IndexFrom(s, n, i) ==
    LET Hits == { k \in i..(Len(s) - Len(n) + 1) : SubSeq(s, k, k + Len(n) - 1) = n }
    IN  IF Hits = {} THEN 0 ELSE CHOOSE k \in Hits : \A j \in Hits : k <= j

\* s.includes(n)
Includes(s, n) == IndexFrom(s, n, 1) # 0

\* s.substring(k) for a 0-based k
Substring(s, k) == SubSeq(s, k + 1, Len(s))

\* the first index from i up, and the last index from j down, of a character
\* of s that is not white space
RECURSIVE FirstInk(_, _)
FirstInk(s, i) ==
    IF i <= Len(s) /\ SubSeq(s, i, i) \in SpaceChars THEN FirstInk(s, i + 1) ELSE i

RECURSIVE LastInk(_, _)
LastInk(s, j) ==
    IF j >= 1 /\ SubSeq(s, j, j) \in SpaceChars THEN LastInk(s, j - 1) ELSE j

\* s.trim()
Trim(s) == SubSeq(s, FirstInk(s, 1), LastInk(s, Len(s)))

\* the pieces of s from index i on that sep separates, i being the index
\* after a separator (or 1) and k the index of the next one (or 0)
RECURSIVE SplitAt(_, _, _, _)
SplitAt(s, sep, i, k) ==
    IF k = 0 THEN << SubSeq(s, i, Len(s)) >>
    ELSE << SubSeq(s, i, k - 1) >>
             \o SplitAt(s, sep, k + Len(sep), IndexFrom(s, sep, k + Len(sep)))

\* s.split(sep) for a non-empty string sep
Split(s, sep) == SplitAt(s, sep, 1, IndexFrom(s, sep, 1))

\* parts.join(sep)
RECURSIVE Join(_, _)
Join(parts, sep) ==
    IF Len(parts) = 0 THEN ""
    ELSE IF Len(parts) = 1 THEN parts[1]
    ELSE parts[1] \o sep \o Join(Tail(parts), sep)

\* s with the occurrence of a at index i (if i is not 0) replaced by b
ReplaceAt(s, a, b, i) ==
    IF i = 0 THEN s
    ELSE SubSeq(s, 1, i - 1) \o b \o SubSeq(s, i + Len(a), Len(s))

\* s.replace(a, b) with a string a: the first occurrence only
ReplaceFirst(s, a, b) == ReplaceAt(s, a, b, IndexFrom(s, a, 1))

\* the last index of the run of non-space characters that starts at i
RECURSIVE RunEnd(_, _)
RunEnd(s, i) ==
    IF i < Len(s) /\ SubSeq(s, i + 1, i + 1) \notin SpaceChars
    THEN RunEnd(s, i + 1) ELSE i

\* the last index of the run of space characters that starts at i
RECURSIVE SpaceEnd(_, _)
SpaceEnd(s, i) ==
    IF i < Len(s) /\ SubSeq(s, i + 1, i + 1) \in SpaceChars
    THEN SpaceEnd(s, i + 1) ELSE i

\* the first index from i on of a white space character of s, 0 when none
RECURSIVE FirstSpace(_, _)
FirstSpace(s, i) ==
    IF i > Len(s) THEN 0
    ELSE IF SubSeq(s, i, i) \in SpaceChars THEN i
    ELSE FirstSpace(s, i + 1)

\* the <<first, last>> indices of the maximal runs of non-space characters of
\* s from index i on: the pieces the \s+ of a regular expression separates
RECURSIVE TokenSpans(_, _)
TokenSpans(s, i) ==
    IF i > Len(s) THEN << >>
    ELSE IF SubSeq(s, i, i) \in SpaceChars THEN TokenSpans(s, i + 1)
    ELSE << << i, RunEnd(s, i) >> >> \o TokenSpans(s, RunEnd(s, i) + 1)

\* s.split(/\s+/) from index i on, k being the index of the next white space
\* (or 0): leading or trailing white space leaves an empty string
RECURSIVE SplitSpacesAt(_, _, _)
SplitSpacesAt(s, i, k) ==
    IF k = 0 THEN << SubSeq(s, i, Len(s)) >>
    ELSE << SubSeq(s, i, k - 1) >>
             \o SplitSpacesAt(s, SpaceEnd(s, k) + 1, FirstSpace(s, SpaceEnd(s, k) + 1))

\* s.split(/\s+/)
SplitSpaces(s) == SplitSpacesAt(s, 1, FirstSpace(s, 1))

\* /^\d+$/, /^\w+$/ and /^[d\-\w]+$/ on a whole string
AllIn(s, set) == Len(s) > 0 /\ \A i \in 1..Len(s) : SubSeq(s, i, i) \in set

\* the value of a digit in radix 16, 16 for a character that is none
DigitValues ==
    [c \in CharsOf("0123456789abcdefABCDEF") |->
        IF IndexFrom("0123456789abcdef", c, 1) # 0
        THEN IndexFrom("0123456789abcdef", c, 1) - 1
        ELSE IndexFrom("0123456789ABCDEF", c, 1) - 1]
DigitValue(c) == IF c \in DOMAIN DigitValues THEN DigitValues[c] ELSE 16

\* the number of leading characters of s from index i that are digits in radix
RECURSIVE DigitRun(_, _, _)
DigitRun(s, i, radix) ==
    IF i > Len(s) \/ DigitValue(SubSeq(s, i, i)) >= radix THEN 0
    ELSE 1 + DigitRun(s, i + 1, radix)

\* the value in radix of the n digits of s from index i on
RECURSIVE DigitsValue(_, _, _, _)
DigitsValue(s, i, n, radix) ==
    IF n = 0 THEN 0
    ELSE DigitsValue(s, i, n - 1, radix) * radix + DigitValue(SubSeq(s, i + n - 1, i + n - 1))

\* the number (or NaN) that parseInt reads from the digits v in radix
ParseDigits(v, radix, negative, n) ==
    IF n = 0 THEN [nan |-> TRUE, val |-> 0]
    ELSE [nan |-> FALSE,
          val |-> IF negative THEN 0 - DigitsValue(v, 1, n, radix)
                  ELSE DigitsValue(v, 1, n, radix)]

\* parseInt of u, the string after the white space and the sign
ParseUnsigned(u, negative) ==
    IF StartsWith(u, "0x") \/ StartsWith(u, "0X")
    THEN ParseDigits(Substring(u, 2), 16, negative, DigitRun(u, 3, 16))
    ELSE ParseDigits(u, 10, negative, DigitRun(u, 1, 10))

\* parseInt of t, the string after the white space
ParseSigned(t) ==
    IF StartsWith(t, "-") THEN ParseUnsigned(Substring(t, 1), TRUE)
    ELSE IF StartsWith(t, "+") THEN ParseUnsigned(Substring(t, 1), FALSE)
    ELSE ParseUnsigned(t, FALSE)

\* parseInt(s) with no radix: leading white space, a sign, 0x for radix 16,
\* then the longest run of digits; NaN when that run is empty
ParseInt(s) == ParseSigned(Trim(s))

\* x || 0 for a number x
OrZero(x) == IF x.nan THEN 0 ELSE x.val

(***************************************************************************)
(* path.posix.join and path.posix.normalize                                *)
(***************************************************************************)

\* normalizeString: drops empty and "." segments, resolves ".."
RECURSIVE NormalizeSegments(_, _, _)
NormalizeSegments(segs, stack, isAbsolute) ==
    IF Len(segs) = 0 THEN stack
    ELSE IF Head(segs) = "" \/ Head(segs) = "."
    THEN NormalizeSegments(Tail(segs), stack, isAbsolute)
    ELSE IF Head(segs) # ".."
    THEN NormalizeSegments(Tail(segs), Append(stack, Head(segs)), isAbsolute)
    ELSE IF Len(stack) > 0 /\ stack[Len(stack)] # ".."
    THEN NormalizeSegments(Tail(segs), SubSeq(stack, 1, Len(stack) - 1), isAbsolute)
    ELSE IF isAbsolute THEN NormalizeSegments(Tail(segs), stack, isAbsolute)
    ELSE NormalizeSegments(Tail(segs), Append(stack, ".."), isAbsolute)

\* the normalized path of the normalized segments body
Normalized(body, isAbsolute, trailing) ==
    IF Len(body) = 0
    THEN (IF isAbsolute THEN "/" ELSE IF trailing THEN "./" ELSE ".")
    ELSE (IF isAbsolute THEN "/" ELSE "") \o body \o (IF trailing THEN "/" ELSE "")

\* path.posix.normalize(p)
PosixNormalize(p) ==
    IF Len(p) = 0 THEN "."
    ELSE Normalized(Join(NormalizeSegments(Split(p, "/"), << >>, StartsWith(p, "/")), "/"),
                    StartsWith(p, "/"), EndsWith(p, "/"))

\* path.posix.join(a, b)
PosixJoin(a, b) ==
    IF Len(a) = 0 /\ Len(b) = 0 THEN "."
    ELSE IF Len(a) = 0 \/ Len(b) = 0 THEN PosixNormalize(a \o b)
    ELSE PosixNormalize(a \o "/" \o b)

(***************************************************************************)
(* Values                                                                  *)
(***************************************************************************)

\* An optional value (undefined | T) is a sequence of at most one element:
\* << >> is undefined, << v >> is the value v.

\* the truthiness of an optional string: undefined and "" are falsy
Truthy(o) == Len(o) = 1 /\ Len(o[1]) > 0

\* `${x}` for an optional string x
Template(o) == IF Len(o) = 1 THEN o[1] ELSE "undefined"

\* interface FileEntry
FileEntry(name, path, isDirectory, size, permissions, date) ==
    [name |-> name, path |-> path, isDirectory |-> isDirectory,
     size |-> size, permissions |-> permissions, date |-> date]

\* What the adb subprocess of one execAsync call did: it exited with code 0
\* and wrote stdout, or it failed and wrote stderr.
ExecOk(stdout) == [ok |-> TRUE, stdout |-> stdout, stderr |-> ""]
ExecFailed(stderr) == [ok |-> FALSE, stdout |-> "", stderr |-> stderr]

\* an execAsync outcome standing for a subprocess that is not run
NoExec == [ok |-> TRUE, stdout |-> "", stderr |-> ""]

\* One execAsync call: the command line and what its subprocess did.
Exec(command, out) == [command |-> command, out |-> out]

\* The message of the Error that child_process.exec rejects with.
ExecErrorMessage(command, out) == "Command failed: " \o command \o "\n" \o out.stderr

\* lines.filter(f) is SelectSeq(lines, f), and lines.map(f) the sequence
\* [i \in 1..Len(lines) |-> f(lines[i])].

\* x put into the sorted sequence at index pos
InsertAt(sorted, x, pos) ==
    SubSeq(sorted, 1, pos - 1) \o << x >> \o SubSeq(sorted, pos, Len(sorted))

\* the first of the indices after (those of the elements of a sorted sequence
\* of length n that x is less than), one past the end when there is none
InsertionPoint(after, n) ==
    IF after = {} THEN n + 1 ELSE CHOOSE k \in after : \A j \in after : k <= j

(***************************************************************************)
(* AdbClient.listFiles                                                     *)
(***************************************************************************)

adbPath == "adb"

\* let targetPath = remotePath.endsWith('/') ? remotePath : remotePath + '/'
TargetPath(remotePath) ==
    IF EndsWith(remotePath, "/") THEN remotePath ELSE remotePath \o "/"

\* the command line listFiles hands to execAsync
ListCommand(deviceId, remotePath, runAsPackage) ==
    IF Truthy(runAsPackage)
    THEN adbPath \o " -s " \o deviceId \o " shell run-as " \o runAsPackage[1]
             \o " ls -Al \"" \o TargetPath(remotePath) \o "\""
    ELSE adbPath \o " -s " \o deviceId \o " shell ls -Al \""
             \o TargetPath(remotePath) \o "\""

\* \d{4}-\d{2}-\d{2}
IsIsoDate(t) ==
    /\ Len(t) = 10
    /\ \A i \in {1, 2, 3, 4, 6, 7, 9, 10} : SubSeq(t, i, i) \in DigitChars
    /\ SubSeq(t, 5, 5) = "-" /\ SubSeq(t, 8, 8) = "-"

\* \d{2}:\d{2}
IsClock(t) ==
    /\ Len(t) = 5
    /\ \A i \in {1, 2, 4, 5} : SubSeq(t, i, i) \in DigitChars
    /\ SubSeq(t, 3, 3) = ":"

\* trimmed.match(/^([d\-\w]+)\s+\d+\s+\w+\s+\w+\s+(\d+)\s+(<date>)\s+(.+)$/)
\* with <date> one of, in this order,
\*     \d{4}-\d{2}-\d{2}\s+\d{2}:\d{2} | \w{3}\s+\d+\s+\d{2}:\d{2} | \d{4}-\d{2}-\d{2}
\* on a trimmed string whose maximal runs of non-space characters are at sp.
\* Every piece of the pattern but the last stands between two \s+ (or the
\* start) and matches no white space, so it matches exactly one such run; the
\* last group is the rest of the line, which the dot must match (no line
\* terminator).  Undefined when there is no match, otherwise the groups 1 to 4.
MatchTokens(trimmed, sp) ==
    LET tok(k) == SubSeq(trimmed, sp[k][1], sp[k][2])
        restOk(k) == \A i \in sp[k][1]..Len(trimmed) :
                         SubSeq(trimmed, i, i) \notin LineTerminators
        groups(dateEnd) ==
            << [perms |-> tok(1), size |-> tok(5),
                date |-> SubSeq(trimmed, sp[6][1], sp[dateEnd][2]),
                name |-> SubSeq(trimmed, sp[dateEnd + 1][1], Len(trimmed))] >>
    IN  IF ~(/\ Len(sp) >= 6
             /\ AllIn(tok(1), PermissionChars)
             /\ AllIn(tok(2), DigitChars)
             /\ AllIn(tok(3), WordChars)
             /\ AllIn(tok(4), WordChars)
             /\ AllIn(tok(5), DigitChars))
        THEN << >>
        ELSE IF Len(sp) >= 8 /\ IsIsoDate(tok(6)) /\ IsClock(tok(7)) /\ restOk(8)
        THEN groups(7)
        ELSE IF /\ Len(sp) >= 9
                /\ Len(tok(6)) = 3 /\ AllIn(tok(6), WordChars)
                /\ AllIn(tok(7), DigitChars)
                /\ IsClock(tok(8)) /\ restOk(9)
        THEN groups(8)
        ELSE IF Len(sp) >= 7 /\ IsIsoDate(tok(6)) /\ restOk(7)
        THEN groups(6)
        ELSE << >>

PrimaryMatch(trimmed) == MatchTokens(trimmed, TokenSpans(trimmed, 1))

\* a variant of the push that lets '.' and '..' through
PushAnyEntry(name, perms, size, date, remotePath) ==
    << FileEntry(name, PosixJoin(remotePath, name), StartsWith(perms, "d"),
                 size, perms, date) >>

\* if (name === '.' || name === '..') continue; files.push({...})
PushEntry(name, perms, size, date, remotePath) ==
    IF name = "." \/ name = ".." THEN << >>
    ELSE << FileEntry(name, PosixJoin(remotePath, name), StartsWith(perms, "d"),
                      size, perms, date) >>

\* the else branch of the loop body: the split heuristic on trimmed.split(/\s+/)
ParseParts(parts, remotePath) ==
    IF Len(parts) > 7
    THEN PushEntry(Join(SubSeq(parts, 8, Len(parts)), " "), parts[1],
                   OrZero(ParseInt(parts[5])), Join(SubSeq(parts, 6, 7), " "),
                   remotePath)
    ELSE << >>

\* the loop body once the line is known not to be skipped: match is the
\* result of trimmed.match(...)
ParseMatched(trimmed, match, remotePath) ==
    IF Len(match) = 1
    THEN PushEntry(match[1].name, match[1].perms, ParseInt(match[1].size).val,
                   match[1].date, remotePath)
    ELSE ParseParts(SplitSpaces(trimmed), remotePath)

\* the loop body for trimmed = line.trim()
ParseTrimmed(trimmed, remotePath) ==
    IF trimmed = "" \/ StartsWith(trimmed, "total")
       \/ Includes(trimmed, "not debuggable") THEN << >>
    ELSE ParseMatched(trimmed, PrimaryMatch(trimmed), remotePath)

\* the body of the loop over the lines of stdout: the entries (none or one)
\* that one line pushes
ParseLine(line, remotePath) == ParseTrimmed(Trim(line), remotePath)

RECURSIVE ParseLines(_, _)
ParseLines(lines, remotePath) ==
    IF Len(lines) = 0 THEN << >>
    ELSE ParseLine(Head(lines), remotePath) \o ParseLines(Tail(lines), remotePath)

\* the try block of listFiles for the command it built
RunListCommand(command, remotePath, out) ==
    IF out.ok
    THEN [command |-> command, threw |-> FALSE, message |-> "",
          files |-> ParseLines(Split(out.stdout, "\n"), remotePath)]
    ELSE [command |-> command, threw |-> TRUE,
          message |-> ExecErrorMessage(command, out), files |-> << >>]

\* listFiles(deviceId, remotePath, runAsPackage) when the subprocess did out:
\* the command it ran, and the entries it returns or the Error it throws
ListFiles(deviceId, remotePath, runAsPackage, out) ==
    RunListCommand(ListCommand(deviceId, remotePath, runAsPackage), remotePath, out)

(***************************************************************************)
(* AdbClient.getDevices and AdbClient.getInstalledPackages                 *)
(***************************************************************************)

\* the UTF-16 code unit of a printable ASCII character (32 to 95, 97 to 126)
AsciiFrom32 ==
    " !\"#$%&'()*+,-./0123456789:;<=>?@ABCDEFGHIJKLMNOPQRSTUVWXYZ[\\]^_"
AsciiFrom97 == "abcdefghijklmnopqrstuvwxyz{|}~"
CharCodes ==
    [c \in CharsOf(AsciiFrom32) \cup CharsOf(AsciiFrom97) |->
        IF IndexFrom(AsciiFrom32, c, 1) # 0 THEN IndexFrom(AsciiFrom32, c, 1) + 31
        ELSE IndexFrom(AsciiFrom97, c, 1) + 96]

\* a < b as Array.prototype.sort() with no comparator orders strings: by
\* UTF-16 code units, a proper prefix first
RECURSIVE CodeUnitLess(_, _)
CodeUnitLess(a, b) ==
    IF Len(b) = 0 THEN FALSE
    ELSE IF Len(a) = 0 THEN TRUE
    ELSE IF SubSeq(a, 1, 1) # SubSeq(b, 1, 1)
    THEN CharCodes[SubSeq(a, 1, 1)] < CharCodes[SubSeq(b, 1, 1)]
    ELSE CodeUnitLess(SubSeq(a, 2, Len(a)), SubSeq(b, 2, Len(b)))

\* a variant of names.sort() that leaves the names as they are
UnsortedNames(names) == names

\* name put into the sorted names after those it is not less than
InsertName(sorted, name) ==
    InsertAt(sorted, name,
             InsertionPoint({ k \in 1..Len(sorted) : CodeUnitLess(name, sorted[k]) },
                            Len(sorted)))

\* names.sort(): a stable insertion of each name in turn
SortNames(names) ==
    LET Sorted[i \in 0..Len(names)] ==
            IF i = 0 THEN << >> ELSE InsertName(Sorted[i - 1], names[i])
    IN  Sorted[Len(names)]

DevicesCommand == adbPath \o " devices -l"

\* the model of a device line: modelPart.split(':')[1], or 'Unknown'
DeviceModel(modelParts) ==
    IF Len(modelParts) > 0 THEN Split(modelParts[1], ":")[2] ELSE "Unknown"

\* the Device of the parts of one line, if it has at least two
DeviceOf(parts) ==
    IF Len(parts) >= 2
    THEN << [id |-> parts[1], status |-> parts[2],
             model |-> DeviceModel(SelectSeq(parts, LAMBDA p : StartsWith(p, "model:")))] >>
    ELSE << >>

\* the loop of getDevices over the non-blank lines from index i on
RECURSIVE DevicesFrom(_, _)
DevicesFrom(lines, i) ==
    IF i > Len(lines) THEN << >>
    ELSE DeviceOf(SplitSpaces(lines[i])) \o DevicesFrom(lines, i + 1)

\* getDevices() when the subprocess did out
GetDevices(out) ==
    IF ~out.ok THEN << >>
    ELSE DevicesFrom(SelectSeq(Split(out.stdout, "\n"), LAMBDA line : Trim(line) # ""), 2)

PackagesCommand(deviceId) == adbPath \o " -s " \o deviceId \o " shell pm list packages"

\* lines.map(line => line.replace('package:', '').trim())
PackageNames(lines) ==
    [i \in 1..Len(lines) |-> Trim(ReplaceFirst(lines[i], "package:", ""))]

\* getInstalledPackages(deviceId) when the subprocess did out
GetInstalledPackages(deviceId, out) ==
    IF ~out.ok THEN << >>
    ELSE SortNames(PackageNames(SelectSeq(Split(out.stdout, "\n"),
                                          LAMBDA line : StartsWith(line, "package:"))))

(***************************************************************************)
(* AndroidItem and DeviceTreeProvider.getChildren                          *)
(***************************************************************************)

\* new AndroidItem(label, collapsibleState, contextValue, deviceId?, path?, fileEntry?)
\* deviceId, path, fileEntry and tooltip are optional values.
AndroidItem(label, collapsibleState, contextValue, deviceId, path, fileEntry) ==
    [label |-> label, collapsibleState |-> collapsibleState,
     contextValue |-> contextValue, deviceId |-> deviceId, path |-> path,
     fileEntry |-> fileEntry, tooltip |-> << >>]

\* a.localeCompare(b) on printable ASCII, after the root collation: a first
\* pass on the letters, digits and signs with case ignored (signs before
\* digits before letters, a proper prefix first), then lower case before
\* upper case at the first difference
CollationOrder ==
    " _-,;:!?.'\"()[]{}@*/\\&#%^+<=>|~$0123456789abcdefghijklmnopqrstuvwxyz"
UpperCase == "ABCDEFGHIJKLMNOPQRSTUVWXYZ"
LowerCase == "abcdefghijklmnopqrstuvwxyz"
LowerOf ==
    [c \in CharsOf(CollationOrder) \cup CharsOf(UpperCase) |->
        IF IndexFrom(UpperCase, c, 1) # 0
        THEN SubSeq(LowerCase, IndexFrom(UpperCase, c, 1), IndexFrom(UpperCase, c, 1))
        ELSE c]
PrimaryWeights ==
    [c \in CharsOf(CollationOrder) \cup CharsOf(UpperCase) |->
        IndexFrom(CollationOrder, LowerOf[c], 1)]

\* the sign of x
Sign(x) == IF x < 0 THEN -1 ELSE IF x > 0 THEN 1 ELSE 0

RECURSIVE ComparePrimary(_, _)
ComparePrimary(a, b) ==
    IF Len(a) = 0 /\ Len(b) = 0 THEN 0
    ELSE IF Len(a) = 0 THEN -1
    ELSE IF Len(b) = 0 THEN 1
    ELSE IF PrimaryWeights[SubSeq(a, 1, 1)] # PrimaryWeights[SubSeq(b, 1, 1)]
    THEN Sign(PrimaryWeights[SubSeq(a, 1, 1)] - PrimaryWeights[SubSeq(b, 1, 1)])
    ELSE ComparePrimary(SubSeq(a, 2, Len(a)), SubSeq(b, 2, Len(b)))

RECURSIVE CompareCase(_, _)
CompareCase(a, b) ==
    IF Len(a) = 0 \/ Len(b) = 0 THEN 0
    ELSE IF SubSeq(a, 1, 1) = SubSeq(b, 1, 1)
    THEN CompareCase(SubSeq(a, 2, Len(a)), SubSeq(b, 2, Len(b)))
    ELSE IF SubSeq(a, 1, 1) = LowerOf[SubSeq(a, 1, 1)] THEN -1 ELSE 1

\* the result of localeCompare given the result of the first pass
CompareTie(primary, a, b) == IF primary # 0 THEN primary ELSE CompareCase(a, b)

LocaleCompare(a, b) == CompareTie(ComparePrimary(a, b), a, b)

\* the comparator of files.sort(...): directories first, then by name
CompareFiles(a, b) ==
    IF a.isDirectory /\ ~b.isDirectory THEN -1
    ELSE IF ~a.isDirectory /\ b.isDirectory THEN 1
    ELSE LocaleCompare(a.name, b.name)

FileLess(a, b) == CompareFiles(a, b) < 0

\* f put into the sorted entries after those it is not less than
InsertFile(sorted, f) ==
    InsertAt(sorted, f,
             InsertionPoint({ k \in 1..Len(sorted) : FileLess(f, sorted[k]) },
                            Len(sorted)))

\* a variant of the sort that leaves the entries in the order of the listing
UnsortedFiles(files) == files

\* files.sort(comparator): a stable insertion of each entry in turn
SortFiles(files) ==
    LET Sorted[i \in 0..Len(files)] ==
            IF i = 0 THEN << >> ELSE InsertFile(Sorted[i - 1], files[i])
    IN  Sorted[Len(files)]

\* the package of a path that starts with dataDataPrefix, from
\* parts = path.substring(dataDataPrefix.length).split('/')
FirstPart(parts) ==
    IF Len(parts) > 0 /\ parts[1] # "" THEN << parts[1] >> ELSE << >>

\* a variant of the run-as policy that knows the package folder itself only
RunAsPackageOfRoot(path) ==
    IF StartsWith(path, "/data/data/") /\ ~Includes(Substring(path, 11), "/")
    THEN << Substring(path, 11) >>
    ELSE << >>

\* the run-as policy of getChildren: the package of a path under /data/data/
dataDataPrefix == "/data/data/"
RunAsPackageOf(path) ==
    IF StartsWith(path, dataDataPrefix)
    THEN FirstPart(Split(Substring(path, Len(dataDataPrefix)), "/"))
    ELSE << >>

\* new AndroidItem(f.name, ..., deviceId, f.path, f) for an entry f
FileItem(f, deviceId) ==
    AndroidItem(f.name, IF f.isDirectory THEN "Collapsed" ELSE "None",
                IF f.isDirectory THEN "folder" ELSE "file",
                << deviceId >>, << f.path >>, << f >>)

\* sorted.map(f => new AndroidItem(...))
FileItemsOf(sorted, deviceId) ==
    [i \in 1..Len(sorted) |-> FileItem(sorted[i], deviceId)]

\* files.sort(...) and files.map(...) of a successful listing
FileItems(files, deviceId) == FileItemsOf(SortFiles(files), deviceId)

\* packages.map(pkg => new AndroidItem(...)) of the /data/data fallback
PackageItems(packages, deviceId) ==
    [i \in 1..Len(packages) |->
        AndroidItem(packages[i], "Collapsed", "folder", << deviceId >>,
                    << "/data/data/" \o packages[i] >>, << >>)]

\* a variant of the /data fallback that returns the subfolders alone
DataFallbackFolders(path, deviceId) ==
    << AndroidItem("app", "Collapsed", "folder", << deviceId >>, << "/data/app" >>, << >>),
       AndroidItem("data", "Collapsed", "folder", << deviceId >>, << "/data/data" >>, << >>),
       AndroidItem("local", "Collapsed", "folder", << deviceId >>, << "/data/local" >>, << >>),
       AndroidItem("user", "Collapsed", "folder", << deviceId >>, << "/data/user" >>, << >>) >>

\* the fixed subfolders of the /data fallback, and its error item
DataFallbackItems(path, deviceId) ==
    << AndroidItem("app", "Collapsed", "folder", << deviceId >>, << "/data/app" >>, << >>),
       AndroidItem("data", "Collapsed", "folder", << deviceId >>, << "/data/data" >>, << >>),
       AndroidItem("local", "Collapsed", "folder", << deviceId >>, << "/data/local" >>, << >>),
       AndroidItem("user", "Collapsed", "folder", << deviceId >>, << "/data/user" >>, << >>),
       AndroidItem("ls: " \o path \o ": Permission denied", "None", "error",
                   << >>, << >>, << >>) >>

\* the label of the error item
ErrorLabel(errorMessage, path, runAsPackage) ==
    IF Includes(errorMessage, "Permission denied")
    THEN "ls: " \o path \o ": Permission denied"
    ELSE IF Includes(errorMessage, "not debuggable")
    THEN "run-as: package not debuggable: " \o Template(runAsPackage)
    ELSE errorMessage

\* a variant of the error item that carries the label as its tooltip
ErrorItemLabelTooltip(errorMessage, path, runAsPackage) ==
    [label |-> ErrorLabel(errorMessage, path, runAsPackage),
     collapsibleState |-> "None", contextValue |-> "error", deviceId |-> << >>,
     path |-> << >>, fileEntry |-> << >>,
     tooltip |-> << ErrorLabel(errorMessage, path, runAsPackage) >>]

\* the error item, with errorItem.tooltip = errorMessage
ErrorItem(errorMessage, path, runAsPackage) ==
    [label |-> ErrorLabel(errorMessage, path, runAsPackage),
     collapsibleState |-> "None", contextValue |-> "error", deviceId |-> << >>,
     path |-> << >>, fileEntry |-> << >>, tooltip |-> << errorMessage >>]

\* the catch block of getChildren, for the Error message of listFiles: the
\* items returned, and the subprocesses run, log being those run before;
\* pmOut is what the subprocess of getInstalledPackages does if it is run
ListingFailed(errorMessage, path, deviceId, runAsPackage, pmOut, log) ==
    IF path = "/data/data" /\ Includes(errorMessage, "Permission denied")
    THEN [items |-> PackageItems(GetInstalledPackages(deviceId, pmOut), deviceId),
          log |-> Append(log, Exec(PackagesCommand(deviceId), pmOut))]
    ELSE IF path = "/data" /\ Includes(errorMessage, "Permission denied")
    THEN [items |-> DataFallbackItems(path, deviceId), log |-> log]
    ELSE [items |-> << ErrorItem(errorMessage, path, runAsPackage) >>, log |-> log]

\* the try and catch of the folder branch, listed being what listFiles did
AfterListing(listed, path, deviceId, runAsPackage, lsOut, pmOut) ==
    IF ~listed.threw
    THEN [items |-> FileItems(listed.files, deviceId),
          log |-> << Exec(listed.command, lsOut) >>]
    ELSE ListingFailed(listed.message, path, deviceId, runAsPackage, pmOut,
                       << Exec(listed.command, lsOut) >>)

\* the folder branch of getChildren once runAsPackage is determined
ListFolder(path, deviceId, runAsPackage, lsOut, pmOut) ==
    AfterListing(ListFiles(deviceId, path, runAsPackage, lsOut),
                 path, deviceId, runAsPackage, lsOut, pmOut)

\* the folder branch of getChildren
FolderChildren(path, deviceId, lsOut, pmOut) ==
    ListFolder(path, deviceId, RunAsPackageOf(path), lsOut, pmOut)

\* getChildren(e) for a defined element e
ElementChildren(e, lsOut, pmOut) ==
    IF ~Truthy(e.deviceId) THEN [items |-> << >>, log |-> << >>]
    ELSE IF e.contextValue = "device"
    THEN [items |->
            << AndroidItem("/", "Collapsed", "folder", e.deviceId, << "/" >>, << >>),
               AndroidItem("sdcard", "Collapsed", "folder", e.deviceId, << "/sdcard" >>, << >>),
               AndroidItem("data", "Collapsed", "folder", e.deviceId, << "/data" >>, << >>) >>,
          log |-> << >>]
    ELSE IF e.contextValue = "folder" /\ Truthy(e.path)
    THEN FolderChildren(e.path[1], e.deviceId[1], lsOut, pmOut)
    ELSE [items |-> << >>, log |-> << >>]

\* devices.map(d => new AndroidItem(d.model, Collapsed, 'device', d.id))
DeviceItems(devices) ==
    [i \in 1..Len(devices) |->
        AndroidItem(devices[i].model, "Collapsed", "device", << devices[i].id >>,
                    << >>, << >>)]

\* getChildren(element): the items it returns and the subprocesses it ran, when
\* the subprocesses of getDevices, listFiles and getInstalledPackages (those of
\* them that are run) do devOut, lsOut and pmOut
GetChildren(element, devOut, lsOut, pmOut) ==
    IF Len(element) = 0
    THEN [items |-> DeviceItems(GetDevices(devOut)),
          log |-> << Exec(DevicesCommand, devOut) >>]
    ELSE ElementChildren(element[1], lsOut, pmOut)


(***************************************************************************)
(* The commands of activate() and AdbClient.pullFile                       *)
(***************************************************************************)

\* s.replace(/[\/\\]/g, '_')
RECURSIVE ReplaceSeparators(_)
ReplaceSeparators(s) ==
    IF Len(s) = 0 THEN ""
    ELSE (IF SubSeq(s, 1, 1) \in {"/", "\\"} THEN "_" ELSE SubSeq(s, 1, 1))
             \o ReplaceSeparators(SubSeq(s, 2, Len(s)))

\* s.replace(/^_+/, '')
RECURSIVE StripUnderscores(_)
StripUnderscores(s) ==
    IF Len(s) > 0 /\ SubSeq(s, 1, 1) = "_" THEN StripUnderscores(SubSeq(s, 2, Len(s)))
    ELSE s

\* const safeName = node.path.replace(/[\/\\]/g, '_').replace(/^_+/, '')
SafeName(path) == StripUnderscores(ReplaceSeparators(path))

\* process.env.TEMP of the extension host: not set, as on Linux and macOS,
\* where path.join is path.posix.join
ProcessEnvTemp == << >>

\* const tempDir = process.env.TEMP || '/tmp'
TempDir == IF Truthy(ProcessEnvTemp) THEN ProcessEnvTemp[1] ELSE "/tmp"

\* const tempFilePath = path.join(tempDir, safeName)
TempFilePath(path) == PosixJoin(TempDir, SafeName(path))

\* if (parts.length > 3) runAsPackage = parts[3], for parts = node.path.split('/')
FourthPart(parts) == IF Len(parts) > 3 THEN << parts[4] >> ELSE << >>

\* the runAsPackage the command handlers hand to adb.pullFile
CommandRunAsPackage(path) ==
    IF StartsWith(path, "/data/data/") THEN FourthPart(Split(path, "/")) ELSE << >>

\* the guard of the pullFile and openFile handlers:
\* !node || !node.fileEntry || !node.deviceId || !node.path
NotDownloadable(node) ==
    \/ Len(node) = 0
    \/ Len(node[1].fileEntry) = 0
    \/ ~Truthy(node[1].deviceId)
    \/ ~Truthy(node[1].path)

\* the arguments pullFile hands to spawn(this.adbPath, ...)
PullArgs(deviceId, remotePath, localPath, runAsPackage) ==
    IF Truthy(runAsPackage)
    THEN << "-s", deviceId, "exec-out", "run-as", runAsPackage[1], "cat", remotePath >>
    ELSE << "-s", deviceId, "pull", remotePath, localPath >>

\* A promise: pending, or settled once and for all; a rejected one holds the
\* text `${err}` of its reason.
PendingPromise == [state |-> "pending", reason |-> ""]
NoPromise == [state |-> "none", reason |-> ""]
Resolve(p) == IF p.state = "pending" THEN [state |-> "resolved", reason |-> ""] ELSE p
Reject(p, reason) ==
    IF p.state = "pending" THEN [state |-> "rejected", reason |-> reason] ELSE p

\* `${code}` for the code of a 'close' event: a number, or null after a signal
CodeText(code) == IF Len(code) = 0 THEN "null" ELSE ToString(code[1])

\* a variant of the 'close' handler that resolves whatever the code
OnCloseResolve(p, code) == Resolve(p)

\* child.on('close', (code) => { if (code === 0) resolve(); else reject(...) })
OnClose(p, code) ==
    IF code = << 0 >> THEN Resolve(p)
    ELSE Reject(p, "Error: adb pull failed with code " \o CodeText(code))

\* child.on('error', (err) => reject(err)), err being the spawn error
SpawnError == "Error: spawn " \o adbPath \o " ENOENT"
OnError(p) == Reject(p, SpawnError)

\* the codes of the 'close' event of a child that ran: an exit code, or null
\* when a signal ended it
ExitCodes == { << 0 >>, << 1 >>, << >> }

\* the code of the 'close' event that follows the 'error' event of a child
\* that was not spawned: the negated errno
SpawnFailedCode == << -2 >>

\* the child process: not spawned, running, failing to spawn, failed (its
\* 'error' event was emitted), closed with a code
NoChild == [file |-> "", args |-> << >>, state |-> "none", code |-> << >>]
Spawn(file, args, state) == [file |-> file, args |-> args, state |-> state, code |-> << >>]

\* fs.createWriteStream(localPath) of run-as mode, with child.stdout piped
\* into it: the chunks the pipe handed to write(), the chunks that reached
\* the local file, and whether end() was called ("ended") and 'finish'
\* emitted ("finished")
NoFileStream == [path |-> "", state |-> "none", piped |-> 0, written |-> 0]
CreateWriteStream(localPath) ==
    [path |-> localPath, state |-> "open", piped |-> 0, written |-> 0]

\* what the handlers show
ErrorMessage(text) == [kind |-> "error", text |-> text]
InformationMessage(text) == [kind |-> "information", text |-> text]
NoUi == [dialog |-> FALSE, messages |-> << >>, opened |-> << >>]

\* the handler invocation: which command, on which node, where it stands, and
\* the local path and runAsPackage it hands to adb.pullFile
NoCommand ==
    [name |-> "none", node |-> << >>, pc |-> "idle", localPath |-> "",
     runAsPackage |-> << >>]
Command(name, node, pc, localPath) ==
    [name |-> name, node |-> node, pc |-> pc, localPath |-> localPath,
     runAsPackage |-> IF pc = "pulling" THEN CommandRunAsPackage(node[1].path[1])
                      ELSE << >>]

\* the continuation of `await adb.pullFile(...)` in the pullFile handler
PullFileMessage(p, targetPath) ==
    IF p.state = "resolved"
    THEN InformationMessage("Successfully downloaded to " \o targetPath)
    ELSE ErrorMessage("Failed to download file: " \o p.reason)

(***************************************************************************)
(* State                                                                   *)
(***************************************************************************)

VARIABLES
    element,    \* the argument of the last getChildren call (undefined: the root)
    children,   \* the items the last getChildren call returned: what the view shows
    execLog,    \* the execAsync calls of the last getChildren call, in order
    listing,    \* the last direct call of AdbClient.listFiles and its result
    cmd,        \* the command handler that is running
    child,      \* the process adb.pullFile spawned
    promise,    \* the promise adb.pullFile returned
    ui,         \* what the running handler showed: the dialog, the messages,
                \* the files it invoked vscode.open on
    tempFile,   \* the temp file of the previous openFile command, if any
    fileStream  \* the write stream adb.pullFile opened in run-as mode

treeVars == << element, children, execLog >>
cmdVars == << cmd, child, promise, ui, tempFile, fileStream >>
vars ==
    << element, children, execLog, listing, cmd, child, promise, ui, tempFile,
       fileStream >>

NoListing ==
    [deviceId |-> "", remotePath |-> "", runAsPackage |-> << >>,
     out |-> NoExec, called |-> FALSE,
     result |-> [command |-> "", threw |-> FALSE, message |-> "", files |-> << >>]]

(***************************************************************************)
(* The device: what the adb subprocesses may answer                        *)
(***************************************************************************)

\* the deepest folder (in path segments) whose expansion is explored
MaxDepth == 4

\* the most lines of ls output in one listing of the tree
MaxTreeLines == 1

\* all outputs of at most n lines drawn from a set of lines
RECURSIVE Outputs(_, _)
Outputs(lines, n) ==
    IF n = 0 THEN {""}
    ELSE Outputs(lines, n - 1)
             \cup { s \o l \o "\n" : s \in Outputs(lines, n - 1), l \in lines }

\* lines of `ls -Al` output met while browsing
TreeLines ==
    { "drwxrwx--x 2 root root 4096 2020-01-01 12:00 a",
      "-rw-r--r-- 1 root root 12 2020-01-01 12:00 a_b",
      "-rw-r--r-- 1 u0_a1 u0_a1 5 2020-01-01 12:00 b",
      "drwxr-xr-x 2 root root 4096 Jan 1 2020 not  debuggable",
      "run-as: package not debuggable: com.x" }

TreeStdouts == Outputs(TreeLines, MaxTreeLines)

\* outputs of `adb devices -l`
DeviceOutcomes ==
    { ExecFailed("/bin/sh: 1: adb: not found\n"),
      ExecOk("List of devices attached\nemu1 device product:sdk model:Pixel_4 device:emu transport_id:1\n\n") }

\* outputs of `pm list packages`
PackageOutcomes ==
    { ExecFailed("error: closed\n"),
      ExecOk(""),
      ExecOk("package:org.y\npackage:com.x\r\n\n") }

\* what a failing `ls` or `run-as` writes to stderr
DeniedStderr(path) == "ls: " \o TargetPath(path) \o ": Permission denied\n"
MissingStderr(path) == "ls: " \o TargetPath(path) \o ": No such file or directory\n"
NotDebuggableStderr(pkg) == "run-as: package not debuggable: " \o pkg \o "\n"

\* the ways a listing fails
ListFailures == { "denied", "missing", "not debuggable" }

\* what the subprocess of listFiles(path, runAsPackage) may do: print one of
\* stdouts, or fail in one of the ways failures (a package that is not
\* debuggable needs one)
ListOutcomes(stdouts, failures, path, runAsPackage) ==
    { ExecOk(s) : s \in stdouts }
        \cup (IF "denied" \in failures THEN { ExecFailed(DeniedStderr(path)) } ELSE {})
        \cup (IF "missing" \in failures THEN { ExecFailed(MissingStderr(path)) } ELSE {})
        \cup (IF "not debuggable" \in failures /\ Truthy(runAsPackage)
              THEN { ExecFailed(NotDebuggableStderr(runAsPackage[1])) } ELSE {})

\* the number of segments of a path
Depth(path) == Len(SelectSeq(Split(path, "/"), LAMBDA seg : seg # ""))

(***************************************************************************)
(* The tree view calls getChildren                                         *)
(*                                                                         *)
(* One handler is followed at a time: the view asks for children while no  *)
(* command handler is running.  A handler holds its node by value, so a    *)
(* call of getChildren in between would not change what it does.           *)
(***************************************************************************)

Init ==
    /\ element = << >>
    /\ children = << >>
    /\ execLog = << >>
    /\ listing = NoListing
    /\ cmd = NoCommand
    /\ child = NoChild
    /\ promise = NoPromise
    /\ ui = NoUi
    /\ tempFile = << >>
    /\ fileStream = NoFileStream

Returned(e, r) ==
    /\ element' = e
    /\ children' = r.items
    /\ execLog' = r.log

\* getChildren(): the view is shown, or refresh() fired onDidChangeTreeData
GetRootChildren ==
    /\ cmd.pc = "idle"
    /\ \E devOut \in DeviceOutcomes :
           Returned(<< >>, GetChildren(<< >>, devOut, NoExec, NoExec))
    /\ UNCHANGED << listing, cmdVars >>

IsFolder(e) == e.contextValue = "folder" /\ Truthy(e.deviceId) /\ Truthy(e.path)

\* getChildren(e) returns r if getInstalledPackages is not run, and otherwise
\* what it returns for one of the answers of `pm list packages`
ReturnedFolder(e, lsOut, r, pmOuts) ==
    IF Len(r.log) = 2
    THEN \E pmOut \in pmOuts : Returned(<< e >>, ElementChildren(e, lsOut, pmOut))
    ELSE Returned(<< e >>, r)

\* getChildren(e) for a folder item e the view shows, of depth maxDepth at
\* most, on a device that answers as stdouts, failures and pmOuts say
ExpandFolder(maxDepth, stdouts, failures, pmOuts) ==
    \E i \in 1..Len(children) :
        /\ IsFolder(children[i])
        /\ Depth(children[i].path[1]) <= maxDepth
        /\ \E lsOut \in ListOutcomes(stdouts, failures, children[i].path[1],
                                     RunAsPackageOf(children[i].path[1])) :
               ReturnedFolder(children[i], lsOut,
                              ElementChildren(children[i], lsOut, NoExec), pmOuts)

GetFolderChildren ==
    /\ cmd.pc = "idle"
    /\ ExpandFolder(MaxDepth, TreeStdouts, ListFailures, PackageOutcomes)
    /\ UNCHANGED << listing, cmdVars >>

\* getChildren(e) for any other item e the view shows
GetItemChildren ==
    /\ cmd.pc = "idle"
    /\ \E i \in 1..Len(children) :
           /\ ~IsFolder(children[i])
           /\ Returned(<< children[i] >>, ElementChildren(children[i], NoExec, NoExec))
    /\ UNCHANGED << listing, cmdVars >>

Next == GetRootChildren \/ GetFolderChildren \/ GetItemChildren

Spec == Init /\ [][Next]_vars

(***************************************************************************)
(* AdbClient.listFiles called on its own                                   *)
(***************************************************************************)

\* the most lines of one output handed to the parser
MaxLines == 2

\* lines of `ls -Al` output: entries in the three date formats, entries only
\* the split heuristic reads, and lines that are no entries
ListLines ==
    { "",
      "total 12",
      "drwxrwx--x 2 root root 4096 2020-01-01 12:00 .",
      "drwxr-xr-x 3 root root 4096 Jan 12 12:00 my dir\r",
      "-rw-r--r-- 1 root root 12 2020-01-01 a.txt",
      "lrwxrwxrwx 1 root root 21 1970-01-01 00:00 sdcard -> /storage/self/primary",
      "drwxr-xr-x 2 root root 4096 Jan 1 2020 ..",
      "-rw------- 1 u0_a1 u0_a1 ? Jan 1 2020 b  c",
      "crw-rw-rw- 1 root root 1, 3 2020-01-01 12:00 null",
      "ls: ./lost+found: Permission denied",
      "run-as: package not debuggable: com.x" }

ListStdouts == Outputs(ListLines, MaxLines)

\* the folders listed, and the packages they are listed as
ListPaths == { "/", "/sdcard", "/data/data/com.x/" }
ListPackages == { << >>, << "com.x" >> }

\* listFiles(deviceId, remotePath, runAsPackage) is called once, and returns
\* or throws
CallListFiles ==
    /\ ~listing.called
    /\ \E remotePath \in ListPaths, runAsPackage \in ListPackages :
           \E out \in { ExecOk(s) : s \in ListStdouts }
                          \cup { ExecFailed(MissingStderr(remotePath)) } :
               listing' = [deviceId |-> "emu1", remotePath |-> remotePath,
                           runAsPackage |-> runAsPackage, out |-> out, called |-> TRUE,
                           result |-> ListFiles("emu1", remotePath, runAsPackage, out)]
    /\ UNCHANGED << treeVars, cmdVars >>

NextList == CallListFiles

SpecList == Init /\ [][NextList]_vars

(***************************************************************************)
(* The user browses the tree and runs the commands on its items            *)
(***************************************************************************)

\* the deepest folder whose expansion is explored while commands are run
MaxCmdDepth == 3

\* the most chunks a child writes to its stdout
MaxChunks == 2

\* what `ls -Al` answers while commands are run
CmdStdouts ==
    { "drwxrwx--x 2 root root 4096 2020-01-01 12:00 a\n-rw-r--r-- 1 root root 12 2020-01-01 12:00 a_b\n",
      "-rw-r--r-- 1 u0_a1 u0_a1 5 2020-01-01 12:00 b\n" }

\* the one way a listing fails while commands are run
CmdListFailures == { "denied" }

CmdPackageOutcomes == { ExecOk("package:com.x\n") }

\* the folder the user picks in showOpenDialog, or none
DialogAnswers == { << >>, << "/home/u/Downloads" >> }

\* the node a command is invoked with: an item of the view, or none (the
\* command palette)
SelectableNodes == { << >> } \cup { << children[i] >> : i \in 1..Len(children) }

GetFolderChildrenCmd ==
    /\ cmd.pc = "idle"
    /\ ExpandFolder(MaxCmdDepth, CmdStdouts, CmdListFailures, CmdPackageOutcomes)
    /\ UNCHANGED << listing, cmdVars >>

\* adb.pullFile(deviceId, remotePath, localPath, runAsPackage) up to its
\* return: the child is spawned, or its spawning is bound to fail; in run-as
\* mode the local file is opened for writing and child.stdout piped into it
CallPullFile(name, node, localPath) ==
    /\ cmd' = Command(name, node, "pulling", localPath)
    /\ \E state \in { "running", "failing" } :
           child' = Spawn(adbPath,
                          PullArgs(node[1].deviceId[1], node[1].path[1], localPath,
                                   CommandRunAsPackage(node[1].path[1])),
                          state)
    /\ fileStream' = IF Truthy(CommandRunAsPackage(node[1].path[1]))
                     THEN CreateWriteStream(localPath)
                     ELSE NoFileStream
    /\ promise' = PendingPromise

\* androidSystemExplorer.pullFile(node) up to its first await
PullFileCommand ==
    /\ cmd.pc = "idle"
    /\ \E node \in SelectableNodes :
           IF NotDownloadable(node)
           THEN /\ cmd' = Command("pullFile", node, "done", "")
                /\ ui' = [ui EXCEPT !.messages =
                              << ErrorMessage("Please select a file to download.") >>]
           ELSE /\ cmd' = Command("pullFile", node, "dialog", "")
                /\ ui' = [ui EXCEPT !.dialog = TRUE]
    /\ UNCHANGED << treeVars, listing, child, promise, tempFile, fileStream >>

\* showOpenDialog returns uri: the handler returns, or starts the pull
ShowOpenDialogReturns ==
    /\ cmd.pc = "dialog"
    /\ \E uri \in DialogAnswers :
           IF Len(uri) = 0
           THEN /\ cmd' = [cmd EXCEPT !.pc = "done"]
                /\ UNCHANGED << child, promise, fileStream >>
           ELSE CallPullFile("pullFile", cmd.node,
                             PosixJoin(uri[1], cmd.node[1].fileEntry[1].name))
    /\ UNCHANGED << treeVars, listing, ui, tempFile >>

\* androidSystemExplorer.openFile(node), which previewFile runs too, up to
\* its await
OpenFileCommand ==
    /\ cmd.pc = "idle"
    /\ \E node \in SelectableNodes :
           IF NotDownloadable(node)
           THEN /\ cmd' = Command("openFile", node, "done", "")
                /\ UNCHANGED << child, promise, fileStream >>
           ELSE CallPullFile("openFile", node, TempFilePath(node[1].path[1]))
    /\ UNCHANGED << treeVars, listing, ui, tempFile >>

\* the 'error' event of a child that could not be spawned
ChildError ==
    /\ child.state = "failing"
    /\ child' = [child EXCEPT !.state = "failed"]
    /\ promise' = OnError(promise)
    /\ UNCHANGED << treeVars, listing, cmd, ui, tempFile, fileStream >>

\* a 'data' event of child.stdout in run-as mode: the pipe hands the chunk to
\* fileStream.write(), which queues it
ChildWritesStdout ==
    /\ child.state = "running"
    /\ fileStream.state = "open"
    /\ fileStream.piped < MaxChunks
    /\ fileStream' = [fileStream EXCEPT !.piped = @ + 1]
    /\ UNCHANGED << treeVars, listing, cmd, child, promise, ui, tempFile >>

\* the 'end' event of child.stdout in run-as mode, after its last 'data'
\* event: the pipe calls fileStream.end()
ChildStdoutEnds ==
    /\ child.state = "running"
    /\ fileStream.state = "open"
    /\ fileStream' = [fileStream EXCEPT !.state = "ended"]
    /\ UNCHANGED << treeVars, listing, cmd, child, promise, ui, tempFile >>

\* a write of the stream completes: the oldest queued chunk is in the local
\* file
FileStreamWrites ==
    /\ fileStream.state \in { "open", "ended" }
    /\ fileStream.written < fileStream.piped
    /\ fileStream' = [fileStream EXCEPT !.written = @ + 1]
    /\ UNCHANGED << treeVars, listing, cmd, child, promise, ui, tempFile >>

\* the 'finish' event of the stream: end() was called and every queued chunk
\* is in the local file
FileStreamFinishes ==
    /\ fileStream.state = "ended"
    /\ fileStream.written = fileStream.piped
    /\ fileStream' = [fileStream EXCEPT !.state = "finished"]
    /\ UNCHANGED << treeVars, listing, cmd, child, promise, ui, tempFile >>

\* the 'close' event of the child, emitted once the process has ended and
\* its stdio streams are closed, so in run-as mode after the 'end' event of
\* child.stdout; the one that follows an 'error' event comes after the
\* continuation of the await, a microtask
ChildClose ==
    /\ \/ child.state = "running" /\ fileStream.state # "open"
       \/ child.state = "failed" /\ cmd.pc = "done"
    /\ \E code \in (IF child.state = "running" THEN ExitCodes ELSE { SpawnFailedCode }) :
           /\ child' = [child EXCEPT !.state = "closed", !.code = code]
           /\ promise' = OnClose(promise, code)
    /\ UNCHANGED << treeVars, listing, cmd, ui, tempFile, fileStream >>

\* the pullFile handler after `await adb.pullFile(...)`
PullFileSettled ==
    /\ cmd.name = "pullFile" /\ cmd.pc = "pulling"
    /\ promise.state \in { "resolved", "rejected" }
    /\ ui' = [ui EXCEPT !.messages = Append(@, PullFileMessage(promise, cmd.localPath))]
    /\ cmd' = [cmd EXCEPT !.pc = "done"]
    /\ UNCHANGED << treeVars, listing, child, promise, tempFile, fileStream >>

\* the openFile handler after `await adb.pullFile(...)`: vscode.open opens the
\* temp file or throws
OpenFileSettled ==
    /\ cmd.name = "openFile" /\ cmd.pc = "pulling"
    /\ promise.state \in { "resolved", "rejected" }
    /\ IF promise.state = "rejected"
       THEN ui' = [ui EXCEPT !.messages =
                       Append(@, ErrorMessage("Failed to open file: " \o promise.reason))]
       ELSE \E opens \in BOOLEAN :
                ui' = IF opens
                      THEN [ui EXCEPT !.opened = Append(@, cmd.localPath)]
                      ELSE [ui EXCEPT !.opened = Append(@, cmd.localPath),
                                      !.messages = Append(@, ErrorMessage(
                                          "Failed to open file: Error: Unable to open"))]
    /\ cmd' = [cmd EXCEPT !.pc = "done"]
    /\ UNCHANGED << treeVars, listing, child, promise, tempFile, fileStream >>

\* the temp file of an openFile command that called adb.pullFile
TempFileOf(c) ==
    [deviceId |-> c.node[1].deviceId[1], path |-> c.node[1].path[1],
     tempFilePath |-> c.localPath]

\* the handler is over, its child is gone and no write of its stream is
\* pending; the temp file of an openFile command is remembered until the
\* next one
CommandReturns ==
    /\ cmd.pc = "done"
    /\ child.state \in { "none", "closed" }
    /\ fileStream.state # "ended"
    /\ tempFile' = IF cmd.name = "openFile" /\ child.state = "closed"
                   THEN << TempFileOf(cmd) >>
                   ELSE tempFile
    /\ cmd' = NoCommand
    /\ child' = NoChild
    /\ promise' = NoPromise
    /\ ui' = NoUi
    /\ fileStream' = NoFileStream
    /\ UNCHANGED << treeVars, listing >>

NextCmd ==
    \/ GetRootChildren
    \/ GetFolderChildrenCmd
    \/ GetItemChildren
    \/ PullFileCommand
    \/ ShowOpenDialogReturns
    \/ OpenFileCommand
    \/ ChildError
    \/ ChildWritesStdout
    \/ ChildStdoutEnds
    \/ FileStreamWrites
    \/ FileStreamFinishes
    \/ ChildClose
    \/ PullFileSettled
    \/ OpenFileSettled
    \/ CommandReturns

SpecCmd == Init /\ [][NextCmd]_vars

(***************************************************************************)
(* Properties of getChildren, under Spec                                   *)
(***************************************************************************)

\* the last getChildren call was about a folder item
FolderCalled == Len(element) = 1 /\ IsFolder(element[1])

\* the last getChildren call was about the folder item of this path
FolderCalledAt(path) == FolderCalled /\ element[1].path[1] = path

\* the listFiles call of the last getChildren call threw
ListingThrew == Len(execLog) >= 1 /\ ~execLog[1].out.ok

\* the message of the error it threw
ThrownMessage == ExecErrorMessage(execLog[1].command, execLog[1].out)

\* it threw an error whose message contains 'Permission denied'
ListingDenied == ListingThrew /\ Includes(ThrownMessage, "Permission denied")

\* a collapsed folder node
FolderNode(label, deviceId, path) ==
    [label |-> label, collapsibleState |-> "Collapsed", contextValue |-> "folder",
     deviceId |-> << deviceId >>, path |-> << path >>, fileEntry |-> << >>,
     tooltip |-> << >>]

\* C1: when getChildren is called on the folder '/data/data' and listFiles
\* fails with a message containing 'Permission denied', it returns one
\* collapsed 'folder' node per package that getInstalledPackages reports (from
\* `pm list packages`), in sorted package-name order, each with the same
\* deviceId and the path '/data/data/<package>', and no error node.
C1_PackagesForDataData ==
    (FolderCalledAt("/data/data") /\ ListingDenied) =>
        /\ Len(execLog) = 2
        /\ execLog[2].command
               = "adb -s " \o element[1].deviceId[1] \o " shell pm list packages"
        /\ LET packages == GetInstalledPackages(element[1].deviceId[1], execLog[2].out)
           IN  /\ Len(children) = Len(packages)
               /\ \A i \in 1..Len(children) :
                      children[i] = FolderNode(packages[i], element[1].deviceId[1],
                                               "/data/data/" \o packages[i])
        /\ \A i \in 1..Len(children) : \A j \in i..Len(children) :
               ~CodeUnitLess(children[j].label, children[i].label)
        /\ \A i \in 1..Len(children) : children[i].contextValue # "error"

\* the fallback returned the nodes of two packages that pm reported unsorted
C1_TwoPackagesListed ==
    /\ FolderCalledAt("/data/data") /\ ListingDenied
    /\ Len(children) = 2
    /\ children[1].label = "com.x" /\ children[2].label = "org.y"

\* C2: when getChildren is called on the folder '/data' and listFiles fails
\* with a message containing 'Permission denied', it returns the collapsed
\* folders app, data, local, user with the paths '/data/app', '/data/data',
\* '/data/local', '/data/user', in that order and with the device's id, then
\* exactly one non-collapsible 'error' node labelled 'ls: /data: Permission
\* denied'; no package listing is attempted.
C2_FixedSubfoldersForData ==
    (FolderCalledAt("/data") /\ ListingDenied) =>
        /\ children
               = << FolderNode("app", element[1].deviceId[1], "/data/app"),
                    FolderNode("data", element[1].deviceId[1], "/data/data"),
                    FolderNode("local", element[1].deviceId[1], "/data/local"),
                    FolderNode("user", element[1].deviceId[1], "/data/user"),
                    [label |-> "ls: /data: Permission denied",
                     collapsibleState |-> "None", contextValue |-> "error",
                     deviceId |-> << >>, path |-> << >>, fileEntry |-> << >>,
                     tooltip |-> << >>] >>
        /\ Len(execLog) = 1
        /\ ~Includes(execLog[1].command, "pm list packages")

\* '/data' was expanded, its listing was denied, and five nodes came back
C2_DataDenied ==
    /\ FolderCalledAt("/data") /\ ListingDenied
    /\ Len(children) = 5

\* the Permission-denied fallbacks for '/data' and '/data/data'
InFallback ==
    /\ element[1].path[1] \in { "/data", "/data/data" }
    /\ Includes(ThrownMessage, "Permission denied")

\* C3: for any folder whose listing fails, outside the Permission-denied
\* fallbacks for '/data' and '/data/data', getChildren returns exactly one
\* node, which is non-collapsible, has contextValue 'error', no deviceId and
\* no path, and has the raw error message as its tooltip.
C3_SingleErrorNode ==
    (FolderCalled /\ ListingThrew /\ ~InFallback) =>
        /\ Len(children) = 1
        /\ children[1].collapsibleState = "None"
        /\ children[1].contextValue = "error"
        /\ children[1].deviceId = << >>
        /\ children[1].path = << >>
        /\ children[1].tooltip = << ThrownMessage >>

\* a listing outside the fallbacks failed for a missing folder, and the error
\* node came back
C3_ListingFailed ==
    /\ FolderCalled /\ ListingThrew /\ ~InFallback
    /\ Includes(ThrownMessage, "No such file or directory")
    /\ Len(children) = 1 /\ children[1].contextValue = "error"

\* the packages a path belongs to: the non-empty segments P that follow the
\* prefix '/data/data/' of the path (one at most)
PackagesOfPath(path) ==
    { SubSeq(path, 12, k) : k \in
        { k \in 12..Len(path) :
            /\ SubSeq(path, 1, 11) = "/data/data/"
            /\ \A i \in 12..k : SubSeq(path, i, i) # "/"
            /\ (k = Len(path) \/ SubSeq(path, k + 1, k + 1) = "/") } }

\* the path with a single trailing slash appended when it is missing
WithTrailingSlash(path) ==
    IF Len(path) > 0 /\ SubSeq(path, Len(path), Len(path)) = "/" THEN path
    ELSE path \o "/"

\* C4 as stated: the label of the error node is, by substring matching on the
\* message, 'ls: <folder path>: Permission denied' if it contains 'Permission
\* denied'; otherwise 'run-as: package not debuggable: <pkg>' if it contains
\* 'not debuggable', <pkg> being the non-empty package the folder belongs to;
\* otherwise the raw message.  And a folder under '/data/data/<pkg>' of a package
\* that run-as reports as not debuggable yields only the error node naming <pkg>.
C4_ErrorLabel ==
    /\ (FolderCalled /\ ListingThrew /\ ~InFallback /\ Len(children) = 1) =>
          IF Includes(ThrownMessage, "Permission denied")
          THEN children[1].label
                   = "ls: " \o element[1].path[1] \o ": Permission denied"
          ELSE IF Includes(ThrownMessage, "not debuggable")
          THEN \E pkg \in PackagesOfPath(element[1].path[1]) :
                   children[1].label = "run-as: package not debuggable: " \o pkg
          ELSE children[1].label = ThrownMessage
    /\ \A pkg \in (IF FolderCalled THEN PackagesOfPath(element[1].path[1]) ELSE {}) :
          (\/ execLog[1].out.stderr = NotDebuggableStderr(pkg)
           \/ Includes(execLog[1].out.stdout, "run-as: package not debuggable: " \o pkg))
              => /\ Len(children) = 1
                 /\ children[1].contextValue = "error"
                 /\ children[1].label = "run-as: package not debuggable: " \o pkg

\* C5: getChildren calls listFiles with runAsPackage = P exactly when the
\* folder's path begins with '/data/data/' and P is the non-empty segment that
\* follows the prefix, at any depth; otherwise runAsPackage is undefined.
\* listFiles issues 'run-as P ls -Al' if and only if runAsPackage is given and
\* plain 'ls -Al' otherwise, on the requested path with a single trailing
\* slash appended when it is missing.
C5_RunAsPolicy ==
    FolderCalled =>
        /\ Len(execLog) >= 1
        /\ IF PackagesOfPath(element[1].path[1]) = {}
           THEN execLog[1].command
                    = "adb -s " \o element[1].deviceId[1] \o " shell ls -Al \""
                          \o WithTrailingSlash(element[1].path[1]) \o "\""
           ELSE \E pkg \in PackagesOfPath(element[1].path[1]) :
                    execLog[1].command
                        = "adb -s " \o element[1].deviceId[1] \o " shell run-as "
                              \o pkg \o " ls -Al \""
                              \o WithTrailingSlash(element[1].path[1]) \o "\""

\* a folder two levels below '/data/data/com.x' was listed as com.x
C5_NestedRunAs ==
    /\ FolderCalledAt("/data/data/com.x/a")
    /\ execLog[1].command = "adb -s emu1 shell run-as com.x ls -Al \"/data/data/com.x/a/\""

\* C8 as stated: if listing '/data/data' fails with 'Permission denied' and
\* `pm list packages` fails too, getChildren returns the single 'error' node
\* labelled 'ls: /data/data: Permission denied' rather than an empty list.
C8_ErrorNodeWhenPmFails ==
    (/\ FolderCalledAt("/data/data") /\ ListingDenied
     /\ Len(execLog) = 2 /\ ~execLog[2].out.ok) =>
        /\ Len(children) = 1
        /\ children[1].contextValue = "error"
        /\ children[1].label = "ls: /data/data: Permission denied"

(***************************************************************************)
(* Properties of listFiles, under SpecList                                 *)
(***************************************************************************)

\* the number a string of decimal digits denotes
DecimalValue(digits) == DigitsValue(digits, 1, Len(digits), 10)

\* the entry a line yields unless it is named '.' or '..': isDirectory is true
\* exactly when the permissions start with 'd', and the path is the POSIX
\* join of the requested path and the name
EntryUnlessDots(perms, size, date, name, remotePath) ==
    IF name \in { ".", ".." } THEN << >>
    ELSE << [name |-> name, path |-> PosixJoin(remotePath, name),
             isDirectory |-> (Len(perms) > 0 /\ SubSeq(perms, 1, 1) = "d"),
             size |-> size, permissions |-> perms, date |-> date] >>

\* what one output line yields by the two strategies, Size(token) being the
\* size the split heuristic reads from token 4
LineYields(line, remotePath, Size(_)) ==
    LET t == Trim(line)
        groups == PrimaryMatch(t)
        tokens == SplitSpaces(t)
    IN  IF t = "" \/ StartsWith(t, "total") \/ Includes(t, "not debuggable") THEN << >>
        ELSE IF Len(groups) = 1
        THEN EntryUnlessDots(groups[1].perms, DecimalValue(groups[1].size),
                             groups[1].date, groups[1].name, remotePath)
        ELSE IF Len(tokens) > 7
        THEN EntryUnlessDots(tokens[1], Size(tokens[5]), tokens[6] \o " " \o tokens[7],
                             Join(SubSeq(tokens, 8, Len(tokens)), " "), remotePath)
        ELSE << >>

\* what the lines yield, in output-line order
LinesYield(lines, remotePath, Size(_)) ==
    LET Yield[i \in 0..Len(lines)] ==
            IF i = 0 THEN << >>
            ELSE Yield[i - 1] \o LineYields(lines[i], remotePath, Size)
    IN  Yield[Len(lines)]

\* token 4, or 0 if it is not numeric
NumericOrZero(token) == IF AllIn(token, DigitChars) THEN DecimalValue(token) ELSE 0

\* what parseInt reads from token 4 (the number its longest leading run of
\* digits denotes, after a sign, in radix 16 after 0x), or 0 if that is
\* nothing or zero
LeadingNumberOrZero(token) == OrZero(ParseInt(token))

\* C6 as amended: listFiles turns each output line into at most one entry by
\* the two strategies, in output-line order: blank lines, lines starting with
\* 'total' and lines containing 'not debuggable' yield nothing; a line
\* matching the primary pattern yields its groups; another line of more than
\* 7 tokens yields permissions = token 0, size = the number parseInt reads from
\* the start of token 4 (0 if there is none), date = tokens 5 and 6, name =
\* tokens 7 onward joined by single spaces; any other line yields nothing.
\* No entry is named '.' or '..', isDirectory is true exactly when the
\* permissions start with 'd', and path is the POSIX join of the requested path
\* and the name.
C6_ListFilesParses ==
    (listing.called /\ listing.out.ok) =>
        /\ ~listing.result.threw
        /\ listing.result.files
               = LinesYield(Split(listing.out.stdout, "\n"), listing.remotePath,
                            LeadingNumberOrZero)

\* C6 as stated: the same, with size = token 4 or 0 if it is not numeric
C6_ListFilesParsesNumericSize ==
    (listing.called /\ listing.out.ok) =>
        /\ ~listing.result.threw
        /\ listing.result.files
               = LinesYield(Split(listing.out.stdout, "\n"), listing.remotePath,
                            NumericOrZero)

\* a line of a device node, whose token 4 is '1,', was read by the split
\* heuristic after a line the primary pattern matched
C6_BothStrategiesUsed ==
    /\ listing.called /\ listing.out.ok
    /\ Len(listing.result.files) = 2
    /\ listing.result.files[1].name = "sdcard -> /storage/self/primary"
    /\ listing.result.files[2].permissions = "crw-rw-rw-"
    /\ listing.result.files[2].size = 1

(***************************************************************************)
(* Properties of the commands, under SpecCmd                               *)
(***************************************************************************)

\* the node is a file node
IsFileNode(node) == Len(node) = 1 /\ node[1].contextValue = "file"

\* C7 as stated: the pullFile command starts a pull only for a file node: for
\* no node, a device node, a folder node or an error node it shows 'Please
\* select a file to download.' and neither opens the destination dialog nor
\* spawns an adb subprocess.
C7_OnlyFilesAreDownloaded ==
    (cmd.name = "pullFile" /\ ~IsFileNode(cmd.node)) =>
        /\ ui.messages = << ErrorMessage("Please select a file to download.") >>
        /\ ~ui.dialog
        /\ child.state = "none"

\* the temp files computed last: that of the previous openFile command and
\* that of the running one
TempFilesSoFar ==
    { tempFile[i] : i \in 1..Len(tempFile) }
        \cup (IF cmd.name = "openFile" /\ cmd.pc # "idle" /\ child.state # "none"
               THEN { TempFileOf(cmd) } ELSE {})

\* C9 as stated: two file nodes with different remote paths, or with the same
\* path on different devices, get different temp file paths, so that opening
\* one file never overwrites the local copy of another.
C9_TempFilesAreUnique ==
    \A s \in TempFilesSoFar : \A t \in TempFilesSoFar :
        (s.deviceId # t.deviceId \/ s.path # t.path) => s.tempFilePath # t.tempFilePath

\* the child closed with exit code 0
ClosedWithZero == child.state = "closed" /\ child.code = << 0 >>

\* the child closed with another code, or could not be spawned
ClosedOtherwise ==
    \/ child.state = "closed" /\ child.code # << 0 >>
    \/ child.state = "failed"

\* C10: the promise of pullFile resolves only if the spawned adb process
\* closes with exit code 0, and rejects if it closes with another code or
\* fails to spawn, in the run-as and in the standard mode.  The pullFile
\* command shows 'Successfully downloaded to <path>' only after a zero exit
\* and 'Failed to download file' otherwise, and the openFile command invokes
\* vscode.open only after a zero exit.
C10_PullSettlesOnExit ==
    /\ promise.state = "resolved" => ClosedWithZero
    /\ ClosedOtherwise => promise.state = "rejected"
    /\ \A i \in 1..Len(ui.messages) :
           StartsWith(ui.messages[i].text, "Successfully downloaded") =>
               /\ cmd.name = "pullFile" /\ ClosedWithZero
               /\ ui.messages[i]
                      = InformationMessage("Successfully downloaded to " \o cmd.localPath)
    /\ (cmd.name = "pullFile" /\ cmd.pc = "done" /\ ClosedOtherwise) =>
           /\ Len(ui.messages) = 1
           /\ ui.messages[1].kind = "error"
           /\ StartsWith(ui.messages[1].text, "Failed to download file")
    /\ Len(ui.opened) > 0 => (cmd.name = "openFile" /\ ClosedWithZero)

\* a pull in the run-as mode closed with exit code 0 and the download command
\* reported its success
C10_RunAsPullSucceeded ==
    /\ cmd.name = "pullFile" /\ cmd.pc = "done"
    /\ Len(child.args) = 7 /\ child.args[3] = "exec-out" /\ child.args[5] = "com.x"
    /\ ClosedWithZero /\ promise.state = "resolved"
    /\ Len(ui.messages) = 1 /\ ui.messages[1].kind = "information"

\* adb.pullFile ran in run-as mode: it piped child.stdout into a write stream
RunAsMode == fileStream.state # "none"

\* every chunk the child wrote is in the local file and the stream finished
FileStreamComplete ==
    fileStream.state = "finished" /\ fileStream.written = fileStream.piped

\* C12: in run-as mode, when the promise of adb.pullFile is resolved, every
\* byte the child wrote to its stdout is in the local file and the write
\* stream has finished: whatever the order of the child's 'close' event and
\* the stream's completion, the caller that goes on after the await (openFile
\* running vscode.open) never sees a partly written local file.
C12_FileCompleteWhenResolved ==
    (RunAsMode /\ promise.state = "resolved") => FileStreamComplete

(***************************************************************************)
(* The tree view expands a folder of several entries                       *)
(***************************************************************************)

\* the most lines of ls output in one listing
MaxSortLines == 3

\* lines of `ls -Al` output: directories and files whose names differ in case
SortLines ==
    { "drwxr-xr-x 2 root root 4096 2020-01-01 12:00 b",
      "drwxr-xr-x 2 root root 4096 2020-01-01 12:00 A",
      "-rw-r--r-- 1 root root 12 2020-01-01 12:00 a",
      "-rw-r--r-- 1 root root 5 2020-01-01 12:00 B" }

SortStdouts == Outputs(SortLines, MaxSortLines)

\* getChildren(e) for one of the folder items of a device, whose listing
\* succeeds
GetFolderChildrenSort ==
    /\ cmd.pc = "idle"
    /\ Len(element) = 1 /\ element[1].contextValue = "device"
    /\ ExpandFolder(MaxDepth, SortStdouts, {}, {})
    /\ UNCHANGED << listing, cmdVars >>

NextSort == GetRootChildren \/ GetFolderChildrenSort \/ GetItemChildren

SpecSort == Init /\ [][NextSort]_vars

(***************************************************************************)
(* Properties of a successful folder listing, under SpecSort               *)
(***************************************************************************)

\* the entries listFiles returned to the last getChildren call
ListedFiles ==
    ListFiles(element[1].deviceId[1], element[1].path[1],
              RunAsPackageOf(element[1].path[1]), execLog[1].out).files

\* the last getChildren call was about a folder item and its listing succeeded
ListingSucceeded == FolderCalled /\ Len(execLog) = 1 /\ execLog[1].out.ok

\* the number of places of a sequence that hold x
Occurrences(seq, x) == Cardinality({ i \in 1..Len(seq) : seq[i] = x })

\* the entries the nodes carry
EntriesOfChildren == [i \in 1..Len(children) |-> children[i].fileEntry]

\* the node of an entry f under a parent of this deviceId
NodeOfEntry(f, deviceId) ==
    [label |-> f.name,
     collapsibleState |-> IF f.isDirectory THEN "Collapsed" ELSE "None",
     contextValue |-> IF f.isDirectory THEN "folder" ELSE "file",
     deviceId |-> deviceId, path |-> << f.path >>, fileEntry |-> << f >>,
     tooltip |-> << >>]

\* C11: for a successful folder listing, getChildren returns exactly one node
\* per entry listFiles returned (none added, dropped or duplicated); every
\* directory node precedes every file node and, within the directories and
\* within the files, the names are in non-decreasing order (the order of
\* localeCompare, the comparator of the sort); a directory entry becomes a
\* collapsed 'folder' node and any other entry a non-collapsible 'file' node,
\* each with the parent's deviceId and the entry's path.
C11_SortedNodePerEntry ==
    ListingSucceeded =>
        /\ Len(children) = Len(ListedFiles)
        /\ \A i \in 1..Len(ListedFiles) :
               Occurrences(EntriesOfChildren, << ListedFiles[i] >>)
                   = Occurrences(ListedFiles, ListedFiles[i])
        /\ \A i \in 1..Len(children) :
               /\ Len(children[i].fileEntry) = 1
               /\ children[i]
                      = NodeOfEntry(children[i].fileEntry[1], element[1].deviceId)
        /\ \A i \in 1..Len(children) : \A j \in (i + 1)..Len(children) :
               /\ ~(children[i].contextValue = "file"
                        /\ children[j].contextValue = "folder")
               /\ children[i].contextValue = children[j].contextValue
                      => LocaleCompare(children[i].label, children[j].label) <= 0

\* a listing of a file B, a directory b and a file a, in that order, became
\* the nodes b, a, B
C11_ThreeEntriesSorted ==
    /\ ListingSucceeded
    /\ Len(ListedFiles) = 3
    /\ ListedFiles[1].name = "B" /\ ~ListedFiles[1].isDirectory
    /\ ListedFiles[2].name = "b" /\ ListedFiles[2].isDirectory
    /\ ListedFiles[3].name = "a" /\ ~ListedFiles[3].isDirectory
    /\ Len(children) = 3
    /\ children[1].label = "b" /\ children[1].contextValue = "folder"
    /\ children[2].label = "a" /\ children[2].contextValue = "file"
    /\ children[3].label = "B" /\ children[3].contextValue = "file"
====
